---- MODULE Spec2Model ----
(***************************************************************************)
(* Model of the merge orchestration of src/src/store.rs: the provided      *)
(* methods Store::merge and Store::merge_with_driver and the helper        *)
(* with_timing.  One call of merge_with_driver is followed statement by    *)
(* statement; every interaction with a collaborator (the Store's required  *)
(* methods, the Driver, the AbortSignal, the Merger) is appended to trace, *)
(* so that ordering properties are state predicates over trace.  The       *)
(* collaborators themselves are not part of store.rs: the Store answers    *)
(* nondeterministically, the Driver, AbortSignal and Merger follow their   *)
(* description in spec.md.  Calls on one Store are sequential (&mut self); *)
(* prev keeps the summary of the previous call so that two calls can be    *)
(* compared.                                                               *)
(***************************************************************************)
EXTENDS Naturals, Sequences, FiniteSets

VARIABLES
    calls,        \* number of calls of merge / merge_with_driver started
    pc,           \* position of the current call in merge_with_driver
    entry,        \* entry point of the current call
    driver,       \* the Driver the current call runs with
    signal,       \* the AbortSignal the current call runs with
    abort_at,     \* where the call stood when its FlagSignal was told to
                  \* abort ("never" while it has not been told)
    local_tree,   \* let local_tree   (line 60)
    remote_tree,  \* let remote_tree  (line 69)
    merged_root,  \* let merged_root  (line 78)
    polls,        \* queries of the signal made by the Merger in this merge
    trace,        \* collaborator interactions of the current call, in order
    sink,         \* telemetry events kept by the driver of the current call
    result,       \* value returned by the current call
    prev,         \* summary of the previous call on this Store
    observe       \* whether an observer keeps the summaries of finished calls

vars == <<calls, pc, entry, driver, signal, abort_at, local_tree, remote_tree,
          merged_root, polls, trace, sink, result, prev, observe>>

(* ------------------------------ bounds --------------------------------- *)

MaxCalls == 2

MaxMergerPolls == 1

Trees == {"tA", "tB"}

BackendErrors == {"E1", "E2"}

Drivers == {"DefaultDriver", "RecordingDriver"}

Signals == {"DefaultAbortSignal", "FlagSignal"}

(* ------------------------------ values --------------------------------- *)

\* An error of the Store's own error type E, produced by the Store.
StoreError(code) == [origin |-> "store", kind |-> code]

\* E::from(Error): the core's Error converted into the Store's error type
\* (the `?` of lines 59, 68, 78, 100, 105 and the E::from of 102, 107).
FromError(e) == [origin |-> "core", kind |-> e.kind]

\* A value of the core's own Error type, before conversion.
Error(kind) == [origin |-> "Error", kind |-> kind]

NoError == [origin |-> "none", kind |-> "none"]

Ok(v) == [ok |-> TRUE, val |-> v, err |-> NoError]

Err(e) == [ok |-> FALSE, val |-> "none", err |-> e]

\* Result<MergedRoot, Error> of Merger::merge; a merged root is described by
\* the set of input trees whose items it accounts for.
MergeOk(covers) == [ok |-> TRUE, val |-> covers, err |-> NoError]

MergeErr(e) == [ok |-> FALSE, val |-> {}, err |-> e]

NotReturned == [ret |-> "none", err |-> NoError]

ReturnOk == [ret |-> "Ok", err |-> NoError]

ReturnErr(e) == [ret |-> "Err", err |-> e]

NoRoot == [built |-> FALSE, covers |-> {}]

NoCall == [entry |-> "none", driver |-> "none", signal |-> "none",
           trace |-> <<>>, sink |-> <<>>, result |-> NotReturned]

\* with_timing as it would be if it converted the error on its way out.
with_timing_Converting(r) ==
    IF r.ok THEN [ok |-> TRUE, val |-> r.val, err |-> r.err, time |-> "elapsed"]
    ELSE [ok |-> FALSE, val |-> r.val, err |-> FromError(r.err), time |-> "none"]

\* with_timing: a success is paired with the elapsed time, an error is
\* handed back as it is.
with_timing(r) ==
    IF r.ok THEN [ok |-> TRUE, val |-> r.val, err |-> r.err, time |-> "elapsed"]
    ELSE [ok |-> FALSE, val |-> r.val, err |-> r.err, time |-> "none"]

\* AbortSignal::err_if_aborted: the default signal always continues, a
\* FlagSignal reports Abort once it has been told to abort.
err_if_aborted(sig, flag) ==
    IF sig = "FlagSignal" /\ flag THEN Err(Error("Abort")) ELSE Ok("unit")

\* Merger::subsumes: the merged tree accounts for every item of `tree`.
subsumes(root, tree) == tree \in root.covers

\* Driver::record_telemetry_event: the default driver drops the event.
record_telemetry_event(d, s, ev) ==
    IF d = "RecordingDriver" THEN Append(s, ev) ELSE s

BoolStr(b) == IF b THEN "true" ELSE "false"


(* ------------------------------ state ---------------------------------- *)

Init ==
    /\ calls = 0
    /\ pc = "idle"
    /\ entry = "none"
    /\ driver = "none"
    /\ signal = "none"
    /\ abort_at = "never"
    /\ local_tree = "none"
    /\ remote_tree = "none"
    /\ merged_root = NoRoot
    /\ polls = 0
    /\ trace = <<>>
    /\ sink = <<>>
    /\ result = NotReturned
    /\ prev = NoCall
    /\ observe = FALSE

\* The same Store watched by an observer that remembers the previous call.
InitObserved ==
    /\ calls = 0
    /\ pc = "idle"
    /\ entry = "none"
    /\ driver = "none"
    /\ signal = "none"
    /\ abort_at = "never"
    /\ local_tree = "none"
    /\ remote_tree = "none"
    /\ merged_root = NoRoot
    /\ polls = 0
    /\ trace = <<>>
    /\ sink = <<>>
    /\ result = NotReturned
    /\ prev = NoCall
    /\ observe = TRUE

\* AbortSignal::aborted of a FlagSignal.
aborted == abort_at # "never"

Summary == [entry |-> entry, driver |-> driver, signal |-> signal,
            trace |-> trace, sink |-> sink, result |-> result]

\* Entry into merge_with_driver(driver, signal) on a Store that is not inside
\* another call (&mut self): fresh locals, nothing returned yet.
Enter(e, d, s, flag) ==
    /\ pc \in {"idle", "done"}
    /\ calls < MaxCalls
    /\ calls' = calls + 1
    /\ prev' = IF observe /\ pc = "done" THEN Summary ELSE prev
    /\ observe' = observe
    /\ entry' = e
    /\ driver' = d
    /\ signal' = s
    /\ abort_at' = IF flag THEN "entry" ELSE "never"
    /\ local_tree' = "none"
    /\ remote_tree' = "none"
    /\ merged_root' = NoRoot
    /\ polls' = 0
    /\ trace' = <<>>
    /\ sink' = <<>>
    /\ result' = NotReturned
    /\ pc' = "l59"

\* Store::merge as it would be if it handed over a signal that can abort.
merge_FlagSignal ==
    \E flag \in BOOLEAN : Enter("merge", "DefaultDriver", "FlagSignal", flag)

\* Store::merge (lines 47-49).
merge == Enter("merge", "DefaultDriver", "DefaultAbortSignal", FALSE)

\* Store::merge_with_driver called by the user with collaborators of its
\* choice; a FlagSignal may already have been told to abort.
merge_with_driver ==
    \E d \in Drivers, s \in Signals, flag \in BOOLEAN :
        /\ (s = "DefaultAbortSignal" => ~flag)
        /\ Enter("merge_with_driver", d, s, flag)

\* The owner of a FlagSignal asks for cancellation, at any moment during or
\* after the call.
SignalAbort ==
    /\ pc # "idle"
    /\ signal = "FlagSignal"
    /\ ~aborted
    /\ abort_at' = pc
    /\ UNCHANGED <<calls, pc, entry, driver, signal, local_tree, remote_tree,
                   merged_root, polls, trace, sink, result, prev, observe>>

\* signal.err_if_aborted()? at position `at`, continuing at `next`.
CheckAbort(at, next) ==
    /\ pc = at
    /\ LET r == err_if_aborted(signal, aborted) IN
        IF r.ok
        THEN /\ trace' = Append(trace, <<"check", "orchestrator", "Ok">>)
             /\ pc' = next
             /\ result' = result
        ELSE /\ trace' = Append(trace, <<"check", "orchestrator", "Abort">>)
             /\ pc' = "done"
             /\ result' = ReturnErr(FromError(r.err))
    /\ UNCHANGED <<calls, entry, driver, signal, abort_at, local_tree,
                   remote_tree, merged_root, polls, sink, prev, observe>>

\* Line 59 left out: the call starts fetching without asking the signal.
CheckAbortFetchLocal_NoCheck ==
    /\ pc = "l59"
    /\ pc' = "l60"
    /\ UNCHANGED <<calls, entry, driver, signal, abort_at, local_tree,
                   remote_tree, merged_root, polls, trace, sink, result,
                   prev, observe>>

\* line 59
CheckAbortFetchLocal == CheckAbort("l59", "l60")

\* line 60, the call
FetchLocalCall ==
    /\ pc = "l60"
    /\ pc' = "in_fetch_local"
    /\ trace' = Append(trace, <<"call", "fetch_local_tree", "">>)
    /\ UNCHANGED <<calls, entry, driver, signal, abort_at, local_tree,
                   remote_tree, merged_root, polls, sink, result, prev, observe>>

\* Lines 60-65 as they would be if recording the event could fail the call:
\* a driver that keeps events ends the merge with an error.
FetchLocalReturn_EventFails ==
    /\ pc = "in_fetch_local"
    /\ \E r \in {Ok(t) : t \in Trees} \cup {Err(StoreError(c)) : c \in BackendErrors} :
        LET w == with_timing(r) IN
        IF w.ok
        THEN /\ local_tree' = w.val
             /\ trace' = trace \o <<<<"ret", "fetch_local_tree", w.val>>,
                                    <<"telemetry", "FetchLocalTree", w.val>>>>
             /\ sink' = record_telemetry_event(driver, sink,
                                               <<"FetchLocalTree", w.val>>)
             /\ IF driver = "RecordingDriver"
                THEN /\ pc' = "done"
                     /\ result' = ReturnErr(FromError(Error("Telemetry")))
                ELSE /\ pc' = "l68"
                     /\ result' = result
        ELSE /\ local_tree' = local_tree
             /\ trace' = Append(trace, <<"ret", "fetch_local_tree", w.err.kind>>)
             /\ sink' = sink
             /\ pc' = "done"
             /\ result' = ReturnErr(w.err)
    /\ UNCHANGED <<calls, entry, driver, signal, abort_at, remote_tree,
                   merged_root, polls, prev, observe>>

\* lines 60-65: fetch_local_tree returns; `?`; the FetchLocalTree event
FetchLocalReturn ==
    /\ pc = "in_fetch_local"
    /\ \E r \in {Ok(t) : t \in Trees} \cup {Err(StoreError(c)) : c \in BackendErrors} :
        LET w == with_timing(r) IN
        IF w.ok
        THEN /\ local_tree' = w.val
             /\ trace' = trace \o <<<<"ret", "fetch_local_tree", w.val>>,
                                    <<"telemetry", "FetchLocalTree", w.val>>>>
             /\ sink' = record_telemetry_event(driver, sink,
                                               <<"FetchLocalTree", w.val>>)
             /\ pc' = "l68"
             /\ result' = result
        ELSE /\ local_tree' = local_tree
             /\ trace' = Append(trace, <<"ret", "fetch_local_tree", w.err.kind>>)
             /\ sink' = sink
             /\ pc' = "done"
             /\ result' = ReturnErr(w.err)
    /\ UNCHANGED <<calls, entry, driver, signal, abort_at, remote_tree,
                   merged_root, polls, prev, observe>>

\* line 68
CheckAbortFetchRemote == CheckAbort("l68", "l69")

\* line 69, the call
FetchRemoteCall ==
    /\ pc = "l69"
    /\ pc' = "in_fetch_remote"
    /\ trace' = Append(trace, <<"call", "fetch_remote_tree", "">>)
    /\ UNCHANGED <<calls, entry, driver, signal, abort_at, local_tree,
                   remote_tree, merged_root, polls, sink, result, prev, observe>>

\* Lines 69-74 as they would be without the `?`: the error is dropped and the
\* call goes on with the local tree in place of the remote one.
FetchRemoteReturn_Swallow ==
    /\ pc = "in_fetch_remote"
    /\ \E r \in {Ok(t) : t \in Trees} \cup {Err(StoreError(c)) : c \in BackendErrors} :
        LET w == with_timing(r) IN
        IF w.ok
        THEN /\ remote_tree' = w.val
             /\ trace' = trace \o <<<<"ret", "fetch_remote_tree", w.val>>,
                                    <<"telemetry", "FetchRemoteTree", w.val>>>>
             /\ sink' = record_telemetry_event(driver, sink,
                                               <<"FetchRemoteTree", w.val>>)
        ELSE /\ remote_tree' = local_tree
             /\ trace' = Append(trace, <<"ret", "fetch_remote_tree", w.err.kind>>)
             /\ sink' = sink
    /\ pc' = "l77"
    /\ result' = result
    /\ UNCHANGED <<calls, entry, driver, signal, abort_at, local_tree,
                   merged_root, polls, prev, observe>>

\* lines 69-74: fetch_remote_tree returns; `?`; the FetchRemoteTree event
FetchRemoteReturn ==
    /\ pc = "in_fetch_remote"
    /\ \E r \in {Ok(t) : t \in Trees} \cup {Err(StoreError(c)) : c \in BackendErrors} :
        LET w == with_timing(r) IN
        IF w.ok
        THEN /\ remote_tree' = w.val
             /\ trace' = trace \o <<<<"ret", "fetch_remote_tree", w.val>>,
                                    <<"telemetry", "FetchRemoteTree", w.val>>>>
             /\ sink' = record_telemetry_event(driver, sink,
                                               <<"FetchRemoteTree", w.val>>)
             /\ pc' = "l77"
             /\ result' = result
        ELSE /\ remote_tree' = remote_tree
             /\ trace' = Append(trace, <<"ret", "fetch_remote_tree", w.err.kind>>)
             /\ sink' = sink
             /\ pc' = "done"
             /\ result' = ReturnErr(w.err)
    /\ UNCHANGED <<calls, entry, driver, signal, abort_at, local_tree,
                   merged_root, polls, prev, observe>>

\* line 77 and the start of line 78: the Merger is built over the two trees
\* and handed the driver and the signal; merger.merge() starts.
MergeCall ==
    /\ pc = "l77"
    /\ pc' = "in_merge"
    /\ polls' = 0
    /\ trace' = Append(trace, <<"call", "merge", "">>)
    /\ UNCHANGED <<calls, entry, driver, signal, abort_at, local_tree,
                   remote_tree, merged_root, sink, result, prev, observe>>

\* Inside merger.merge(): the Merger, which holds the signal, may query it;
\* an abort seen there is the Err that merge() returns (line 78, `?`).
MergerPoll ==
    /\ pc = "in_merge"
    /\ polls < MaxMergerPolls
    /\ polls' = polls + 1
    /\ LET r == err_if_aborted(signal, aborted)
           w == with_timing(MergeErr(r.err))
       IN
        IF r.ok
        THEN /\ trace' = Append(trace, <<"check", "merger", "Ok">>)
             /\ pc' = pc
             /\ result' = result
        ELSE /\ trace' = trace \o <<<<"check", "merger", "Abort">>,
                                    <<"ret", "merge", w.err.kind>>>>
             /\ pc' = "done"
             /\ result' = ReturnErr(FromError(w.err))
    /\ UNCHANGED <<calls, entry, driver, signal, abort_at, local_tree,
                   remote_tree, merged_root, sink, prev, observe>>

\* Lines 78-79 followed directly by line 110: the validation is skipped.
MergeReturn_SkipValidation ==
    /\ pc = "in_merge"
    /\ \E r \in {MergeOk(c) : c \in SUBSET {local_tree, remote_tree}}
                \cup {MergeErr(Error("MergeError"))} :
        LET w == with_timing(r) IN
        IF w.ok
        THEN /\ merged_root' = [built |-> TRUE, covers |-> w.val]
             /\ trace' = trace \o <<<<"ret", "merge", "Ok">>,
                                    <<"telemetry", "Merge", "">>>>
             /\ sink' = record_telemetry_event(driver, sink, <<"Merge", "">>)
             /\ pc' = "l110"
             /\ result' = result
        ELSE /\ merged_root' = merged_root
             /\ trace' = Append(trace, <<"ret", "merge", w.err.kind>>)
             /\ sink' = sink
             /\ pc' = "done"
             /\ result' = ReturnErr(FromError(w.err))
    /\ UNCHANGED <<calls, entry, driver, signal, abort_at, local_tree,
                   remote_tree, polls, prev, observe>>

\* Lines 78-79 without line 79: the Merge event is not emitted.
MergeReturn_NoEvent ==
    /\ pc = "in_merge"
    /\ \E r \in {MergeOk(c) : c \in SUBSET {local_tree, remote_tree}}
                \cup {MergeErr(Error("MergeError"))} :
        LET w == with_timing(r) IN
        IF w.ok
        THEN /\ merged_root' = [built |-> TRUE, covers |-> w.val]
             /\ trace' = Append(trace, <<"ret", "merge", "Ok">>)
             /\ pc' = "l100"
             /\ result' = result
        ELSE /\ merged_root' = merged_root
             /\ trace' = Append(trace, <<"ret", "merge", w.err.kind>>)
             /\ pc' = "done"
             /\ result' = ReturnErr(FromError(w.err))
    /\ UNCHANGED <<calls, entry, driver, signal, abort_at, local_tree,
                   remote_tree, polls, sink, prev, observe>>

\* lines 78-79: merger.merge() returns; `?`; the Merge event
MergeReturn ==
    /\ pc = "in_merge"
    /\ \E r \in {MergeOk(c) : c \in SUBSET {local_tree, remote_tree}}
                \cup {MergeErr(Error("MergeError"))} :
        LET w == with_timing(r) IN
        IF w.ok
        THEN /\ merged_root' = [built |-> TRUE, covers |-> w.val]
             /\ trace' = trace \o <<<<"ret", "merge", "Ok">>,
                                    <<"telemetry", "Merge", "">>>>
             /\ sink' = record_telemetry_event(driver, sink, <<"Merge", "">>)
             /\ pc' = "l100"
             /\ result' = result
        ELSE /\ merged_root' = merged_root
             /\ trace' = Append(trace, <<"ret", "merge", w.err.kind>>)
             /\ sink' = sink
             /\ pc' = "done"
             /\ result' = ReturnErr(FromError(w.err))
    /\ UNCHANGED <<calls, entry, driver, signal, abort_at, local_tree,
                   remote_tree, polls, prev, observe>>

\* Line 100 left out: the local tree is validated without asking the signal.
CheckAbortValidateLocal_NoCheck ==
    /\ pc = "l100"
    /\ pc' = "l101"
    /\ UNCHANGED <<calls, entry, driver, signal, abort_at, local_tree,
                   remote_tree, merged_root, polls, trace, sink, result,
                   prev, observe>>

\* line 100
CheckAbortValidateLocal == CheckAbort("l100", "l101")

\* Lines 101-103 reporting the wrong side.
ValidateLocal_WrongSide ==
    /\ pc = "l101"
    /\ LET b == subsumes(merged_root, local_tree) IN
        /\ trace' = trace \o <<<<"call", "subsumes", "local_tree">>,
                               <<"ret", "subsumes", BoolStr(b)>>>>
        /\ IF ~b
           THEN /\ result' = ReturnErr(FromError(Error("UnmergedRemoteItems")))
                /\ pc' = "done"
           ELSE /\ result' = result
                /\ pc' = "l105"
    /\ UNCHANGED <<calls, entry, driver, signal, abort_at, local_tree,
                   remote_tree, merged_root, polls, sink, prev, observe>>

\* lines 101-103
ValidateLocal ==
    /\ pc = "l101"
    /\ LET b == subsumes(merged_root, local_tree) IN
        /\ trace' = trace \o <<<<"call", "subsumes", "local_tree">>,
                               <<"ret", "subsumes", BoolStr(b)>>>>
        /\ IF ~b
           THEN /\ result' = ReturnErr(FromError(Error("UnmergedLocalItems")))
                /\ pc' = "done"
           ELSE /\ result' = result
                /\ pc' = "l105"
    /\ UNCHANGED <<calls, entry, driver, signal, abort_at, local_tree,
                   remote_tree, merged_root, polls, sink, prev, observe>>

\* line 105
CheckAbortValidateRemote == CheckAbort("l105", "l106")

\* Lines 106-108 checking the local tree a second time.
ValidateRemote_LocalAgain ==
    /\ pc = "l106"
    /\ LET b == subsumes(merged_root, local_tree) IN
        /\ trace' = trace \o <<<<"call", "subsumes", "remote_tree">>,
                               <<"ret", "subsumes", BoolStr(b)>>>>
        /\ IF ~b
           THEN /\ result' = ReturnErr(FromError(Error("UnmergedRemoteItems")))
                /\ pc' = "done"
           ELSE /\ result' = result
                /\ pc' = "l110"
    /\ UNCHANGED <<calls, entry, driver, signal, abort_at, local_tree,
                   remote_tree, merged_root, polls, sink, prev, observe>>

\* lines 106-108
ValidateRemote ==
    /\ pc = "l106"
    /\ LET b == subsumes(merged_root, remote_tree) IN
        /\ trace' = trace \o <<<<"call", "subsumes", "remote_tree">>,
                               <<"ret", "subsumes", BoolStr(b)>>>>
        /\ IF ~b
           THEN /\ result' = ReturnErr(FromError(Error("UnmergedRemoteItems")))
                /\ pc' = "done"
           ELSE /\ result' = result
                /\ pc' = "l110"
    /\ UNCHANGED <<calls, entry, driver, signal, abort_at, local_tree,
                   remote_tree, merged_root, polls, sink, prev, observe>>

\* line 110, the call
ApplyCall ==
    /\ pc = "l110"
    /\ pc' = "in_apply"
    /\ trace' = Append(trace, <<"call", "apply", "">>)
    /\ UNCHANGED <<calls, entry, driver, signal, abort_at, local_tree,
                   remote_tree, merged_root, polls, sink, result, prev, observe>>

\* Lines 110-113 with a cancellation check after apply.
ApplyReturn_ChecksAbort ==
    /\ pc = "in_apply"
    /\ \E r \in {Ok("unit")} \cup {Err(StoreError(c)) : c \in BackendErrors} :
        LET w == with_timing(r) IN
        IF w.ok /\ err_if_aborted(signal, aborted).ok
        THEN /\ trace' = trace \o <<<<"ret", "apply", "Ok">>,
                                    <<"telemetry", "Apply", "">>>>
             /\ sink' = record_telemetry_event(driver, sink, <<"Apply", "">>)
             /\ result' = ReturnOk
        ELSE IF w.ok
        THEN /\ trace' = Append(trace, <<"ret", "apply", "Ok">>)
             /\ sink' = sink
             /\ result' = ReturnErr(FromError(Error("Abort")))
        ELSE /\ trace' = Append(trace, <<"ret", "apply", w.err.kind>>)
             /\ sink' = sink
             /\ result' = ReturnErr(w.err)
    /\ pc' = "done"
    /\ UNCHANGED <<calls, entry, driver, signal, abort_at, local_tree,
                   remote_tree, merged_root, polls, prev, observe>>

\* Lines 110-113 with a retry: a failed apply is attempted again.
ApplyReturn_Retry ==
    /\ pc = "in_apply"
    /\ \E r \in {Ok("unit")} \cup {Err(StoreError(c)) : c \in BackendErrors} :
        LET w == with_timing(r) IN
        IF w.ok
        THEN /\ trace' = trace \o <<<<"ret", "apply", "Ok">>,
                                    <<"telemetry", "Apply", "">>>>
             /\ sink' = record_telemetry_event(driver, sink, <<"Apply", "">>)
             /\ result' = ReturnOk
             /\ pc' = "done"
        ELSE /\ trace' = Append(trace, <<"ret", "apply", w.err.kind>>)
             /\ sink' = sink
             /\ result' = result
             /\ pc' = "l110"
    /\ UNCHANGED <<calls, entry, driver, signal, abort_at, local_tree,
                   remote_tree, merged_root, polls, prev, observe>>

\* Lines 110-113 with the Apply event recorded before the `?`: a failed apply
\* is reported to the driver as well.
ApplyReturn_EventOnError ==
    /\ pc = "in_apply"
    /\ \E r \in {Ok("unit")} \cup {Err(StoreError(c)) : c \in BackendErrors} :
        LET w == with_timing(r) IN
        IF w.ok
        THEN /\ trace' = trace \o <<<<"ret", "apply", "Ok">>,
                                    <<"telemetry", "Apply", "">>>>
             /\ sink' = record_telemetry_event(driver, sink, <<"Apply", "">>)
             /\ result' = ReturnOk
        ELSE /\ trace' = trace \o <<<<"ret", "apply", w.err.kind>>,
                                    <<"telemetry", "Apply", "">>>>
             /\ sink' = record_telemetry_event(driver, sink, <<"Apply", "">>)
             /\ result' = ReturnErr(w.err)
    /\ pc' = "done"
    /\ UNCHANGED <<calls, entry, driver, signal, abort_at, local_tree,
                   remote_tree, merged_root, polls, prev, observe>>

\* Lines 110-113 without the `?`: the outcome of apply is dropped and the
\* call returns Ok(()).
ApplyReturn_OkOnError ==
    /\ pc = "in_apply"
    /\ \E r \in {Ok("unit")} \cup {Err(StoreError(c)) : c \in BackendErrors} :
        LET w == with_timing(r) IN
        IF w.ok
        THEN /\ trace' = trace \o <<<<"ret", "apply", "Ok">>,
                                    <<"telemetry", "Apply", "">>>>
             /\ sink' = record_telemetry_event(driver, sink, <<"Apply", "">>)
        ELSE /\ trace' = Append(trace, <<"ret", "apply", w.err.kind>>)
             /\ sink' = sink
    /\ result' = ReturnOk
    /\ pc' = "done"
    /\ UNCHANGED <<calls, entry, driver, signal, abort_at, local_tree,
                   remote_tree, merged_root, polls, prev, observe>>

\* lines 110-113: apply returns; `?`; the Apply event; Ok(())
ApplyReturn ==
    /\ pc = "in_apply"
    /\ \E r \in {Ok("unit")} \cup {Err(StoreError(c)) : c \in BackendErrors} :
        LET w == with_timing(r) IN
        IF w.ok
        THEN /\ trace' = trace \o <<<<"ret", "apply", "Ok">>,
                                    <<"telemetry", "Apply", "">>>>
             /\ sink' = record_telemetry_event(driver, sink, <<"Apply", "">>)
             /\ result' = ReturnOk
        ELSE /\ trace' = Append(trace, <<"ret", "apply", w.err.kind>>)
             /\ sink' = sink
             /\ result' = ReturnErr(w.err)
    /\ pc' = "done"
    /\ UNCHANGED <<calls, entry, driver, signal, abort_at, local_tree,
                   remote_tree, merged_root, polls, prev, observe>>

Next ==
    \/ merge
    \/ merge_with_driver
    \/ SignalAbort
    \/ CheckAbortFetchLocal
    \/ FetchLocalCall
    \/ FetchLocalReturn
    \/ CheckAbortFetchRemote
    \/ FetchRemoteCall
    \/ FetchRemoteReturn
    \/ MergeCall
    \/ MergerPoll
    \/ MergeReturn
    \/ CheckAbortValidateLocal
    \/ ValidateLocal
    \/ CheckAbortValidateRemote
    \/ ValidateRemote
    \/ ApplyCall
    \/ ApplyReturn

\* A statement of the call in progress: merge_with_driver is straight-line
\* synchronous code, so the statement the call stands at is executed as long
\* as the collaborator it calls returns.
Step ==
    \/ CheckAbortFetchLocal
    \/ FetchLocalCall
    \/ FetchLocalReturn
    \/ CheckAbortFetchRemote
    \/ FetchRemoteCall
    \/ FetchRemoteReturn
    \/ MergeCall
    \/ MergeReturn
    \/ CheckAbortValidateLocal
    \/ ValidateLocal
    \/ CheckAbortValidateRemote
    \/ ValidateRemote
    \/ ApplyCall
    \/ ApplyReturn

Spec == Init /\ [][Next]_vars

\* Every collaborator call returns and the call in progress keeps running.
SpecLive == Init /\ [][Next]_vars /\ WF_vars(Step)

SpecObserved == InitObserved /\ [][Next]_vars

(* ------------------------ reading the trace ---------------------------- *)

Indices(t) == 1..Len(t)

\* Positions of the events e of t with e[1] = kind and e[2] = op.
At(t, kind, op) == {i \in Indices(t) : t[i][1] = kind /\ t[i][2] = op}

\* Positions of one exact event.
AtEvent(t, e) == {i \in Indices(t) : t[i] = e}

IsTelemetry(e) == e[1] = "telemetry"

\* The telemetry events of t, in order.
Telemetry(t) == SelectSeq(t, IsTelemetry)

StoreOps == {"fetch_local_tree", "fetch_remote_tree", "apply"}

TimedOps == {"fetch_local_tree", "fetch_remote_tree", "merge", "apply"}

\* The event a timed stage emits.
EventOf(op) ==
    CASE op = "fetch_local_tree" -> "FetchLocalTree"
      [] op = "fetch_remote_tree" -> "FetchRemoteTree"
      [] op = "merge" -> "Merge"
      [] op = "apply" -> "Apply"

\* The start of each of the six stages, in the order of section 4.4.
StageStart ==
    <<<<"call", "fetch_local_tree", "">>,
      <<"call", "fetch_remote_tree", "">>,
      <<"call", "merge", "">>,
      <<"call", "subsumes", "local_tree">>,
      <<"call", "subsumes", "remote_tree">>,
      <<"call", "apply", "">>>>

\* Stage k (started at position i of t) has completed successfully at
\* position j: its first return after i, which is not an error.
CompletedAt(t, i, j) ==
    /\ j > i
    /\ t[j][1] = "ret"
    /\ \A m \in (i + 1)..(j - 1) : t[m][1] # "ret"
    /\ t[j][3] \in Trees \cup {"Ok", "true"}

\* An event that ends the call with an error.
IsFailure(e) ==
    \/ e = <<"check", "orchestrator", "Abort">>
    \/ /\ e[1] = "ret"
       /\ e[3] \notin Trees \cup {"Ok", "true"}

ApplyCalled(t) == AtEvent(t, <<"call", "apply", "">>) # {}

CoreErr(kind) == ReturnErr(FromError(Error(kind)))

(* ------------------------------ claims --------------------------------- *)

\* C1: apply is invoked only after subsumes(local_tree) and
\* subsumes(remote_tree) have both returned true earlier in the same call, on
\* a merged root that does account for both trees; once either check has
\* returned false the call has ended with an Unmerged-items error and apply
\* has not been invoked.
C1_ApplyOnlyIfSubsumed ==
    /\ \A i \in AtEvent(trace, <<"call", "apply", "">>) :
        /\ \E j \in AtEvent(trace, <<"call", "subsumes", "local_tree">>) :
              j + 1 < i /\ trace[j + 1] = <<"ret", "subsumes", "true">>
        /\ \E j \in AtEvent(trace, <<"call", "subsumes", "remote_tree">>) :
              j + 1 < i /\ trace[j + 1] = <<"ret", "subsumes", "true">>
        /\ merged_root.built
        /\ local_tree \in merged_root.covers
        /\ remote_tree \in merged_root.covers
    /\ AtEvent(trace, <<"ret", "subsumes", "false">>) # {} =>
        /\ pc = "done"
        /\ result \in {CoreErr("UnmergedLocalItems"), CoreErr("UnmergedRemoteItems")}
        /\ ~ApplyCalled(trace)

\* C1 witness: the local check passed, the remote check failed, and the call
\* ended without apply.
C1_Witness ==
    /\ pc = "done"
    /\ AtEvent(trace, <<"ret", "subsumes", "true">>) # {}
    /\ AtEvent(trace, <<"ret", "subsumes", "false">>) # {}
    /\ local_tree \in merged_root.covers
    /\ remote_tree \notin merged_root.covers
    /\ ~ApplyCalled(trace)

\* C2: the first failing step (an abort check, either fetch, the merge, either
\* subsumption check, apply) is the last thing the call does: nothing is
\* called and no event is recorded after it, the call has returned an error,
\* and apply has not been invoked unless apply is the step that failed.
C2_FailureShortCircuits ==
    \A i \in Indices(trace) :
        IsFailure(trace[i]) =>
            /\ i = Len(trace)
            /\ pc = "done"
            /\ result.ret = "Err"
            /\ (trace[i][2] # "apply" => ~ApplyCalled(trace))

\* C2 witness: fetch_remote_tree failed after a successful fetch_local_tree.
C2_Witness ==
    /\ pc = "done"
    /\ Len(trace) > 0
    /\ trace[Len(trace)][1] = "ret"
    /\ trace[Len(trace)][2] = "fetch_remote_tree"
    /\ trace[Len(trace)][3] \in BackendErrors
    /\ local_tree \in Trees

\* Positions of the call before the merger runs.
BeforeMerge == {"entry", "l59", "l60", "in_fetch_local", "l68", "l69",
                "in_fetch_remote", "l77"}

\* The signal reports aborted before the Merge stage: at a checkpoint that
\* precedes the merge, or by being aborted after fetch_remote_tree has
\* returned and before the merger runs.
AbortedBeforeMerge ==
    \/ \E i \in AtEvent(trace, <<"check", "orchestrator", "Abort">>) :
          \A j \in 1..i : trace[j] # <<"call", "merge", "">>
    \/ /\ abort_at \in BeforeMerge
       /\ remote_tree \in Trees

\* C3: if the signal reports aborted before the Merge stage, the call returns
\* the Abort error, records no Merge and no Apply event, and never invokes
\* apply.
C3_AbortBeforeMerge ==
    AbortedBeforeMerge =>
        /\ (pc = "done" => result = CoreErr("Abort"))
        /\ AtEvent(trace, <<"telemetry", "Merge", "">>) = {}
        /\ AtEvent(trace, <<"telemetry", "Apply", "">>) = {}
        /\ ~ApplyCalled(trace)

\* C4: each of FetchLocal, FetchRemote, Merge, ValidateLocal and
\* ValidateRemote is immediately preceded by a cancellation check of the
\* orchestrator that did not report aborted.
C4_CheckBeforeEachStage ==
    \A k \in 1..5 :
        \A i \in AtEvent(trace, StageStart[k]) :
            /\ i > 1
            /\ trace[i - 1] = <<"check", "orchestrator", "Ok">>

\* C5: the stages run in the order FetchLocal, FetchRemote, Merge,
\* ValidateLocal, ValidateRemote, Apply: a stage starts at most once, and only
\* after every earlier stage has started and completed successfully.
C5_FixedStageOrder ==
    \A k \in 1..6 :
        /\ Cardinality(AtEvent(trace, StageStart[k])) <= 1
        /\ \A i \in AtEvent(trace, StageStart[k]) :
            \A k2 \in 1..(k - 1) :
                \E a \in AtEvent(trace, StageStart[k2]) :
                    \E b \in (a + 1)..(i - 1) : CompletedAt(trace, a, b)

\* C5 witness: all six stages have run.
C5_Witness ==
    /\ pc = "done"
    /\ result = ReturnOk
    /\ \A k \in 1..6 : AtEvent(trace, StageStart[k]) # {}

\* C6: a failed subsumption check is reported by side.  The call returns
\* UnmergedLocalItems exactly when subsumes(local_tree) was evaluated and is
\* false, and then subsumes(remote_tree) is not evaluated; it returns
\* UnmergedRemoteItems exactly when subsumes(remote_tree) was evaluated,
\* subsumes(local_tree) is true and subsumes(remote_tree) is false.  With no
\* abort signalled, a merged root that fails a check always ends the call
\* with the error of the first failing side.
C6_UnmergedBySide ==
    pc = "done" =>
        /\ result = CoreErr("UnmergedLocalItems") <=>
              /\ AtEvent(trace, <<"call", "subsumes", "local_tree">>) # {}
              /\ ~subsumes(merged_root, local_tree)
        /\ result = CoreErr("UnmergedLocalItems") =>
              AtEvent(trace, <<"call", "subsumes", "remote_tree">>) = {}
        /\ result = CoreErr("UnmergedRemoteItems") <=>
              /\ AtEvent(trace, <<"call", "subsumes", "remote_tree">>) # {}
              /\ subsumes(merged_root, local_tree)
              /\ ~subsumes(merged_root, remote_tree)
        /\ (merged_root.built /\ abort_at \in {"never", "done"}) =>
              /\ ~subsumes(merged_root, local_tree) =>
                    result = CoreErr("UnmergedLocalItems")
              /\ (subsumes(merged_root, local_tree)
                    /\ ~subsumes(merged_root, remote_tree)) =>
                    result = CoreErr("UnmergedRemoteItems")

\* C6 witness: neither tree is subsumed and the local side is reported.
C6_Witness ==
    /\ pc = "done"
    /\ merged_root.built
    /\ ~subsumes(merged_root, local_tree)
    /\ ~subsumes(merged_root, remote_tree)
    /\ result = CoreErr("UnmergedLocalItems")

\* C7: an error returned by fetch_local_tree, fetch_remote_tree or apply is
\* the error the call returns, unchanged: not Abort, not an Unmerged-items
\* error, not Ok.
C7_StoreErrorUnchanged ==
    \A i \in Indices(trace) :
        (/\ trace[i][1] = "ret"
         /\ trace[i][2] \in StoreOps
         /\ trace[i][3] \in BackendErrors) =>
            /\ pc = "done"
            /\ result = ReturnErr(StoreError(trace[i][3]))

\* C7 witness: apply failed with the backend error E2.
C7_Witness ==
    /\ pc = "done"
    /\ AtEvent(trace, <<"ret", "apply", "E2">>) # {}

\* C8: each of FetchLocal, FetchRemote, Merge and Apply emits exactly one
\* telemetry event, handed to the driver right after the stage returned
\* successfully and so before the next stage starts; a call that returns Ok
\* has emitted exactly FetchLocalTree, FetchRemoteTree, Merge, Apply, in this
\* order, and a driver that keeps its events holds exactly these.
C8_OneEventPerTimedStage ==
    /\ \A op \in TimedOps :
        /\ Cardinality(At(trace, "telemetry", EventOf(op))) <= 1
        /\ \A i \in At(trace, "ret", op) :
              trace[i][3] \in Trees \cup {"Ok"} =>
                  /\ i < Len(trace)
                  /\ trace[i + 1][1] = "telemetry"
                  /\ trace[i + 1][2] = EventOf(op)
        /\ \A i \in At(trace, "telemetry", EventOf(op)) :
              /\ i > 1
              /\ trace[i - 1][1] = "ret"
              /\ trace[i - 1][2] = op
              /\ trace[i - 1][3] \in Trees \cup {"Ok"}
    /\ result = ReturnOk =>
          [i \in 1..Len(Telemetry(trace)) |-> Telemetry(trace)[i][2]]
              = <<"FetchLocalTree", "FetchRemoteTree", "Merge", "Apply">>
    /\ driver = "RecordingDriver" =>
          sink = [i \in 1..Len(Telemetry(trace)) |->
                      <<Telemetry(trace)[i][2], Telemetry(trace)[i][3]>>]

\* C8 witness: a successful call with a driver that kept the four events.
C8_Witness ==
    /\ pc = "done"
    /\ result = ReturnOk
    /\ driver = "RecordingDriver"
    /\ Len(sink) = 4

\* Positions of the call after the checkpoint that precedes ValidateRemote.
AfterLastCheck == {"l106", "l110", "in_apply", "done"}

\* C9: after the checkpoint preceding ValidateRemote the signal is not
\* queried again; an abort signalled from then on (while apply runs, or after
\* it) never makes the call return Abort, and when apply succeeds the call
\* returns Ok and the Apply event is emitted.
C9_NoCheckAroundApply ==
    /\ \A i \in AtEvent(trace, <<"call", "subsumes", "remote_tree">>) :
          \A j \in i..Len(trace) : trace[j][1] # "check"
    /\ (pc = "done" /\ abort_at \in AfterLastCheck) =>
          /\ result # CoreErr("Abort")
          /\ AtEvent(trace, <<"ret", "apply", "Ok">>) # {} =>
                /\ result = ReturnOk
                /\ trace[Len(trace)] = <<"telemetry", "Apply", "">>
                /\ (driver = "RecordingDriver" =>
                        sink[Len(sink)] = <<"Apply", "">>)

\* C9 witness: the abort was signalled while apply ran, and the call
\* returned Ok.
C9_Witness ==
    /\ pc = "done"
    /\ abort_at = "in_apply"
    /\ result = ReturnOk

\* The answer the collaborators gave in t to the question q = <<op, arg>>:
\* the first return after the call, "unasked" when the call was not made.
Answer(t, q) ==
    LET asked == AtEvent(t, <<"call", q[1], q[2]>>) IN
    IF asked = {} THEN "unasked"
    ELSE LET i == CHOOSE x \in asked : TRUE
             rets == {j \in Indices(t) : j > i /\ t[j][1] = "ret"}
         IN IF rets = {} THEN "unasked"
            ELSE t[CHOOSE j \in rets : \A m \in rets : j <= m][3]

Questions ==
    {<<"fetch_local_tree", "">>, <<"fetch_remote_tree", "">>, <<"merge", "">>,
     <<"subsumes", "local_tree">>, <<"subsumes", "remote_tree">>,
     <<"apply", "">>}

\* Two calls met the same behaviour of the Store (and of the Merger, a
\* function of the trees the Store returned): whatever both asked was
\* answered alike.
SameBehaviour(t1, t2) ==
    \A q \in Questions :
        \/ Answer(t1, q) = "unasked"
        \/ Answer(t2, q) = "unasked"
        \/ Answer(t1, q) = Answer(t2, q)

IsStoreCall(e) == e[1] = "call" /\ e[2] \in StoreOps

\* The calls of Store methods made in t, in order.
StoreCalls(t) == SelectSeq(t, IsStoreCall)

WithDefaults(c) ==
    /\ c.entry = "merge_with_driver"
    /\ c.driver = "DefaultDriver"
    /\ c.signal = "DefaultAbortSignal"

\* C10: merge() behaves as merge_with_driver with the default driver (which
\* keeps no telemetry) and the default signal (which never aborts): of two
\* finished calls, one through merge() and one through merge_with_driver
\* with the defaults, that met the same Store behaviour, the sequences of
\* Store calls and the results are equal; and merge() never ends in Abort.
C10_MergeIsDefaultDriver ==
    /\ entry = "merge" =>
          /\ result # CoreErr("Abort")
          /\ AtEvent(trace, <<"check", "orchestrator", "Abort">>) = {}
          /\ sink = <<>>
    /\ pc = "done" =>
          \A pair \in {<<prev, Summary>>, <<Summary, prev>>} :
              (/\ pair[1].entry = "merge"
               /\ WithDefaults(pair[2])
               /\ SameBehaviour(pair[1].trace, pair[2].trace)) =>
                  /\ StoreCalls(pair[1].trace) = StoreCalls(pair[2].trace)
                  /\ pair[1].result = pair[2].result
                  /\ pair[1].sink = pair[2].sink

\* C10 witness: a call through merge() and a call through merge_with_driver
\* with the defaults met the same behaviour and both ran to apply.
C10_Witness ==
    /\ pc = "done"
    /\ prev.entry = "merge"
    /\ WithDefaults(Summary)
    /\ SameBehaviour(prev.trace, trace)
    /\ prev.result = ReturnOk
    /\ result = ReturnOk

\* C11: there is no retry inside merge_with_driver: in one call each of
\* fetch_local_tree, fetch_remote_tree, the merger's merge and apply is
\* invoked at most once, whatever the call ends in, and once one of them has
\* returned an error or the signal has reported aborted nothing is invoked
\* again.
C11_NoRetry ==
    /\ \A op \in TimedOps : Cardinality(At(trace, "call", op)) <= 1
    /\ \A op \in TimedOps : Cardinality(At(trace, "ret", op)) <= 1
    /\ \A i \in Indices(trace) :
          (\/ trace[i] = <<"check", "orchestrator", "Abort">>
           \/ trace[i] = <<"check", "merger", "Abort">>
           \/ (trace[i][1] = "ret" /\ trace[i][3] \in BackendErrors \cup {"MergeError"})) =>
              \A j \in (i + 1)..Len(trace) : trace[j][1] # "call"

\* C11 witness: apply was invoked, failed, and the call ended with that one
\* invocation.
C11_Witness ==
    /\ pc = "done"
    /\ result = ReturnErr(StoreError("E1"))
    /\ Cardinality(At(trace, "call", "apply")) = 1
    /\ trace[Len(trace)] = <<"ret", "apply", "E1">>

IsCheck(e) == e[1] = "check"

\* The answers of the signal in t, in order, each with who asked.
Checks(t) == SelectSeq(t, IsCheck)

\* Two calls met the same answers of the signal: as far as both asked, the
\* same queries were answered alike.
SameSignal(t1, t2) ==
    LET c1 == Checks(t1)
        c2 == Checks(t2)
    IN \A i \in 1..Len(c1) : i <= Len(c2) => c1[i] = c2[i]

\* C12: recording telemetry cannot fail or alter the merge: two finished
\* calls that ran with different drivers and met the same Store responses,
\* the same merge outcome and the same signal responses made the same
\* sequence of Store calls and returned the same result.
C12_DriverDoesNotAlterMerge ==
    (/\ pc = "done"
     /\ prev.entry # "none"
     /\ prev.driver # driver
     /\ ~(prev.result = result /\ StoreCalls(prev.trace) = StoreCalls(trace))) =>
        \/ ~SameSignal(prev.trace, trace)
        \/ ~SameBehaviour(prev.trace, trace)

\* C12 witness: a call with a driver that kept four events and a call with
\* the default driver, which kept none, met the same responses, and both
\* returned Ok.
C12_Witness ==
    /\ pc = "done"
    /\ prev.driver = "RecordingDriver"
    /\ driver = "DefaultDriver"
    /\ SameBehaviour(prev.trace, trace)
    /\ SameSignal(prev.trace, trace)
    /\ Len(prev.sink) = 4
    /\ sink = <<>>
    /\ prev.result = ReturnOk
    /\ result = ReturnOk

\* C13: if the signal reports aborted at the first checkpoint, on entry to
\* merge_with_driver, the call returns the Abort error having invoked no
\* Store method and recorded no telemetry event: a signal that was aborted
\* when the first checkpoint was reached leaves a trace of that one check.
C13_AbortOnEntry ==
    /\ (abort_at \in {"entry", "l59"} /\ pc # "l59") =>
          /\ pc = "done"
          /\ result = CoreErr("Abort")
          /\ trace = <<<<"check", "orchestrator", "Abort">>>>
          /\ sink = <<>>
    /\ (Len(trace) > 0 /\ trace[1] = <<"check", "orchestrator", "Abort">>) =>
          /\ pc = "done"
          /\ result = CoreErr("Abort")
          /\ \A op \in StoreOps : At(trace, "call", op) = {}
          /\ Telemetry(trace) = <<>>
          /\ sink = <<>>

\* C13 witness: a call entered with an aborted signal and a driver that
\* keeps its events has returned.
C13_Witness ==
    /\ pc = "done"
    /\ abort_at = "entry"
    /\ driver = "RecordingDriver"
    /\ result = CoreErr("Abort")

\* The events of a complete call, in order.
AllEvents == <<"FetchLocalTree", "FetchRemoteTree", "Merge", "Apply">>

\* The names of the telemetry events of t, in order.
EventNames(t) == [i \in 1..Len(Telemetry(t)) |-> Telemetry(t)[i][2]]

\* Positions at which a timed stage returned successfully.
SucceededTimed(t) ==
    {i \in Indices(t) : /\ t[i][1] = "ret"
                        /\ t[i][2] \in TimedOps
                        /\ t[i][3] \in Trees \cup {"Ok"}}

\* The timed stage op returned an error in t.
FailedTimed(t, op) ==
    \E i \in At(t, "ret", op) : t[i][3] \notin Trees \cup {"Ok"}

\* C14: at every point of every call the telemetry events emitted so far are
\* a prefix of FetchLocalTree, FetchRemoteTree, Merge, Apply, one per timed
\* stage that has returned successfully; a timed stage that fails emits no
\* event for itself, and a failing apply leaves exactly three events, none of
\* them Apply.
C14_TelemetryIsPrefix ==
    LET n == EventNames(trace) IN
    /\ Len(n) <= Len(AllEvents)
    /\ n = SubSeq(AllEvents, 1, Len(n))
    /\ Len(n) = Cardinality(SucceededTimed(trace))
    /\ \A op \in TimedOps :
          FailedTimed(trace, op) => At(trace, "telemetry", EventOf(op)) = {}
    /\ FailedTimed(trace, "apply") =>
          n = <<"FetchLocalTree", "FetchRemoteTree", "Merge">>
    /\ driver = "RecordingDriver" => Len(sink) = Len(n)

\* C14 witness: apply failed in a call whose driver keeps its events.
C14_Witness ==
    /\ pc = "done"
    /\ FailedTimed(trace, "apply")
    /\ driver = "RecordingDriver"
    /\ Len(sink) = 3

\* C15: Abort takes precedence over an Unmerged-items error at the validation
\* checkpoints.  If the signal reports aborted at the checkpoint before
\* ValidateLocal, the call returns Abort and subsumes(local_tree) is not
\* evaluated; if it reports aborted at the checkpoint before ValidateRemote,
\* the call returns Abort and subsumes(remote_tree) is not evaluated; in both
\* cases whatever the check would have returned.
C15_AbortBeforeUnmerged ==
    /\ \A i \in AtEvent(trace, <<"telemetry", "Merge", "">>) :
          (i < Len(trace) /\ trace[i + 1] = <<"check", "orchestrator", "Abort">>) =>
              /\ pc = "done"
              /\ result = CoreErr("Abort")
              /\ At(trace, "call", "subsumes") = {}
    /\ \A i \in AtEvent(trace, <<"call", "subsumes", "local_tree">>) :
          (i + 2 <= Len(trace)
              /\ trace[i + 2] = <<"check", "orchestrator", "Abort">>) =>
              /\ pc = "done"
              /\ result = CoreErr("Abort")
              /\ AtEvent(trace, <<"call", "subsumes", "remote_tree">>) = {}
    /\ (/\ pc = "done"
        /\ merged_root.built
        /\ abort_at \in BeforeMerge \cup {"in_merge", "l100"}) =>
          /\ result = CoreErr("Abort")
          /\ At(trace, "call", "subsumes") = {}
    /\ (/\ pc = "done"
        /\ abort_at \in {"l101", "l105"}
        /\ subsumes(merged_root, local_tree)) =>
          /\ result = CoreErr("Abort")
          /\ AtEvent(trace, <<"call", "subsumes", "remote_tree">>) = {}

\* C15 witness: the signal reported aborted at the checkpoint before
\* ValidateRemote, on a merged root that does not subsume the remote tree.
C15_Witness ==
    /\ pc = "done"
    /\ result = CoreErr("Abort")
    /\ merged_root.built
    /\ subsumes(merged_root, local_tree)
    /\ ~subsumes(merged_root, remote_tree)
    /\ AtEvent(trace, <<"call", "subsumes", "local_tree">>) # {}
    /\ trace[Len(trace)] = <<"check", "orchestrator", "Abort">>

\* What a call can return.
Outcomes ==
    {ReturnOk}
        \cup {CoreErr(k) : k \in {"Abort", "UnmergedLocalItems",
                                  "UnmergedRemoteItems", "MergeError"}}
        \cup {ReturnErr(StoreError(c)) : c \in BackendErrors}

\* A finished call has one of the outcomes, a running call has returned
\* nothing; Ok is returned exactly when apply was invoked once and succeeded,
\* and then both fetches and the merge succeeded and both checks were true.
C16_Outcome ==
    /\ pc \notin {"idle", "done"} => result = NotReturned
    /\ pc = "done" =>
          /\ result \in Outcomes
          /\ result = ReturnOk <=>
                /\ Cardinality(At(trace, "call", "apply")) = 1
                /\ AtEvent(trace, <<"ret", "apply", "Ok">>) # {}
    /\ result = ReturnOk =>
          /\ \E t \in Trees : AtEvent(trace, <<"ret", "fetch_local_tree", t>>) # {}
          /\ \E t \in Trees : AtEvent(trace, <<"ret", "fetch_remote_tree", t>>) # {}
          /\ AtEvent(trace, <<"ret", "merge", "Ok">>) # {}
          /\ Cardinality(AtEvent(trace, <<"ret", "subsumes", "true">>)) = 2
          /\ AtEvent(trace, <<"ret", "subsumes", "false">>) = {}
          /\ merged_root.built
          /\ subsumes(merged_root, local_tree)
          /\ subsumes(merged_root, remote_tree)

\* C16: provided every collaborator call returns, each call of
\* merge_with_driver terminates, in exactly one outcome among Ok, Abort,
\* UnmergedLocalItems, UnmergedRemoteItems and a backend or merge error; it
\* returns Ok if and only if apply was invoked exactly once and succeeded,
\* and then both fetches and the merge succeeded and both subsumption checks
\* were true.
C16_TerminatesInOneOutcome ==
    /\ []C16_Outcome
    /\ (pc \notin {"idle", "done"}) ~> (pc = "done")

\* C16 witness: a call that went through apply has returned Ok.
C16_Witness ==
    /\ pc = "done"
    /\ result = ReturnOk
    /\ Cardinality(At(trace, "call", "apply")) = 1
    /\ subsumes(merged_root, local_tree)
    /\ subsumes(merged_root, remote_tree)

====
